---- MODULE Spec2Model ----
(***************************************************************************)
(* AsyncAuditLogsClient (slack_sdk/audit_logs/v1/async_client.py).         *)
(*                                                                         *)
(* One client object, a number of concurrent coroutines calling it, the    *)
(* aiohttp sessions they use and the caller that owns the injected         *)
(* session.  A coroutine runs without interruption between two awaits, so  *)
(* every action below is the code between two awaits of                    *)
(* _perform_http_request.                                                  *)
(*                                                                         *)
(* Python values: an Optional[...] argument is <<>> (None) or <<v>>; a     *)
(* dict is a function whose DOMAIN is its key set; None stored as a dict   *)
(* value is NoneVal.                                                       *)
(***************************************************************************)
EXTENDS Integers, Sequences, FiniteSets, TLC

\* Number of coroutines that call the client concurrently.
NumCalls == 2

Calls == 1 .. NumCalls

NoneVal == "<None>"

BASE_URL == "https://api.slack.com/audit/v1/"

Tokens == {"xoxp-1", "xoxp-2"}

(***************************************************************************)
(* dict helpers                                                            *)
(***************************************************************************)
EmptyDict == [k \in {} |-> NoneVal]

\* d.update(e)
Update(d, e) ==
    [k \in (DOMAIN d) \cup (DOMAIN e) |-> IF k \in DOMAIN e THEN e[k] ELSE d[k]]

\* d[key] = value
SetItem(d, key, value) ==
    [k \in (DOMAIN d) \cup {key} |-> IF k = key THEN value ELSE d[k]]

\* All dicts with keys among Keys and values among Vals.
Dicts(Keys, Vals) == UNION {[S -> Vals] : S \in SUBSET Keys}

Optional(S) == {<<>>} \cup {<<v>> : v \in S}

(***************************************************************************)
(* logs(): the query parameters handed to api_call                         *)
(***************************************************************************)
FilterNames == {"latest", "oldest", "limit", "action", "actor", "entity"}

\* logs() with the named filters above the additional ones: the update is
\* applied the wrong way round.
LogsQueryParamsNamedWin(named, additional) ==
    LET merged == IF additional # <<>> THEN Update(additional[1], named) ELSE named
    IN  [k \in {n \in DOMAIN merged : merged[n] # NoneVal} |-> merged[k]]

LogsQueryParams(named, additional) ==
    LET merged == IF additional # <<>> THEN Update(named, additional[1]) ELSE named
    IN  [k \in {n \in DOMAIN merged : merged[n] # NoneVal} |-> merged[k]]

(***************************************************************************)
(* headers                                                                 *)
(***************************************************************************)
AuthNames == {"Authorization", "authorization", "AUTHORIZATION", "AuThOrIzAtIoN"}

\* str.lower() on the header names of the model.
Lower(k) ==
    CASE k \in AuthNames -> "authorization"
      [] k = "Content-Type" -> "content-type"
      [] k = "User-Agent" -> "user-agent"
      [] k = "X-Id" -> "x-id"
      [] OTHER -> k

Bearer(tok) == "Bearer " \o tok

\* get_user_agent(None, None)
UserAgent == "python-slack-sdk"

\* __init__: default_headers if default_headers else {}, then User-Agent.
InitDefaultHeaders(default_headers) ==
    SetItem(IF default_headers # <<>> THEN default_headers[1] ELSE EmptyDict,
            "User-Agent", UserAgent)

\* internal_utils._build_request_headers: defaults, then the per-call headers
\* over them, and Authorization: Bearer <token> always.
BuildRequestHeaders(tok, default_headers, additional_headers) ==
    LET merged == IF additional_headers # <<>>
                  THEN Update(default_headers, additional_headers[1])
                  ELSE default_headers
    IN  SetItem(merged, "Authorization", Bearer(tok))

ContentTypeJson == "application/json;charset=utf-8"

\* The headers dict replaced instead of one item set.
RequestHeadersReplaced(headers) ==
    SetItem(EmptyDict, "Content-Type", ContentTypeJson)

\* _perform_http_request: headers["Content-Type"] = ..., whatever the body.
RequestHeaders(headers) ==
    SetItem(headers, "Content-Type", ContentTypeJson)

Redacted == "(redacted)"

\* Redaction comparing the name as written.
HeadersForLoggingCaseSensitive(headers) ==
    [k \in DOMAIN headers |->
        IF k = "Authorization" THEN Redacted ELSE headers[k]]

HeadersForLogging(headers) ==
    [k \in DOMAIN headers |->
        IF Lower(k) = "authorization" THEN Redacted ELSE headers[k]]

\* json.dumps on the request bodies of the model.
JsonDumps(body) ==
    CASE body = [limit |-> "1"] -> "{\"limit\": \"1\"}"
      [] OTHER -> "{}"

\* body_params = json.dumps(body_params) if it is not None.
RequestBody(body_params) ==
    IF body_params # <<>> THEN <<JsonDumps(body_params[1])>> ELSE <<>>

(***************************************************************************)
(* responses                                                               *)
(***************************************************************************)
Statuses == {200, 404, 500}

JsonText == "{\"entries\":[]}"

Bodies == {JsonText, "not json", ""}

ResponseHeaders == {[server |-> "slack"]}

Responses == [status : Statuses, headers : ResponseHeaders, body : Bodies]

\* Two of them, for the runs that are about something else.
CoreResponses ==
    { [status |-> 200, headers |-> [server |-> "slack"], body |-> JsonText],
      [status |-> 500, headers |-> [server |-> "slack"], body |-> "not json"] }

\* response_body = {} before the body is read; a str once res.text() returned.
NoBody == [kind |-> "dict", text |-> ""]

TextBody(t) == [kind |-> "str", text |-> t]

IsJson(t) == t = JsonText

\* AuditLogsResponse.body: the parsed JSON, empty when the text is no JSON.
ParsedBody(raw_body) ==
    IF raw_body.kind = "str" /\ IsJson(raw_body.text)
    THEN [entries |-> "[]"]
    ELSE EmptyDict

\* AuditLogsResponse(url=, status_code=, raw_body=, headers=)
AuditLogsResponse(url, status_code, raw_body, headers) ==
    [url |-> url, status_code |-> status_code, raw_body |-> raw_body,
     body |-> ParsedBody(raw_body), headers |-> headers]

\* The envelope built without the body that was read.
MakeRespNoBody(url, res, response_body) ==
    AuditLogsResponse(url, res.status, NoBody, res.headers)

\* resp = AuditLogsResponse(url=url, status_code=res.status,
\*                          raw_body=response_body, headers=res.headers)
MakeResp(url, res, response_body) ==
    AuditLogsResponse(url, res.status, response_body, res.headers)

(***************************************************************************)
(* State                                                                   *)
(***************************************************************************)
VARIABLES
    token,            \* self.token
    default_headers,  \* self.default_headers
    debug,            \* self.logger.level <= logging.DEBUG
    self_session,     \* self.session: <<>> or <<the injected session>>
    sessions,         \* every aiohttp.ClientSession there is, by number
    calls             \* the coroutines running _perform_http_request

vars == <<token, default_headers, debug, self_session, sessions, calls>>

\* Who called close() on a session.
ByCaller == [who |-> "caller", call |-> 0]

ByCall(c) == [who |-> "call", call |-> c]

\* A session of the caller (createdBy = <<>>) or of coroutine c (<<c>>).
NewSession(createdBy) == [closed |-> FALSE, createdBy |-> createdBy, closers |-> <<>>]

\* session.close()
Close(ss, sid, who) ==
    [ss EXCEPT ![sid].closed = TRUE, ![sid].closers = Append(@, who)]

IdleCall ==
    [pc |-> "idle", args |-> <<>>, http_verb |-> "", url |-> "",
     query_params |-> <<>>, body_params |-> <<>>, headers |-> EmptyDict,
     log |-> <<>>, use_running_session |-> FALSE, session |-> 0,
     request |-> <<>>, res |-> <<>>, text |-> "", response_body |-> NoBody,
     built |-> 0, resp |-> <<>>, error |-> <<>>, returned |-> <<>>,
     raised |-> <<>>]

\* __init__ with session=None, an open session, or a session already closed.
SessionChoices ==
    { [self_session |-> <<>>, sessions |-> <<>>],
      [self_session |-> <<1>>, sessions |-> <<NewSession(<<>>)>>],
      [self_session |-> <<1>>,
       sessions |-> Close(<<NewSession(<<>>)>>, 1, ByCaller)] }

InitClient(T, D, L, S) ==
    /\ token \in T
    /\ default_headers \in {InitDefaultHeaders(d) : d \in D}
    /\ debug \in L
    /\ \E s \in S : self_session = s.self_session /\ sessions = s.sessions
    /\ calls = [c \in Calls |-> IdleCall]

(***************************************************************************)
(* api_call and _perform_http_request up to the first await                *)
(***************************************************************************)
\* use_running_session = self.session and not self.session.closed
UseRunningSession(ss, injected) ==
    injected # <<>> /\ ~ss[injected[1]].closed

\* The request debug line.
RequestLog(url, query_params, body, headers) ==
    [kind |-> "request", url |-> url, params |-> query_params, body |-> body,
     headers |-> HeadersForLogging(headers)]

\* What a public method is called with: nothing yet.
NoArgs ==
    [method |-> "", named |-> EmptyDict, additional |-> <<>>,
     query_params |-> <<>>, headers |-> <<>>]

\* What the public method was called with.
Args(method, named, additional, query_params, headers) ==
    [NoArgs EXCEPT !.method = method, !.named = named,
                   !.additional = additional, !.query_params = query_params,
                   !.headers = headers]

ApiCall(c, http_verb, path, query_params, body_params, headers, args) ==
    /\ calls[c].pc = "idle"
    /\ LET url == BASE_URL \o path
           hdrs == RequestHeaders(BuildRequestHeaders(token, default_headers, headers))
           body == RequestBody(body_params)
           use == UseRunningSession(sessions, self_session)
       IN  /\ sessions' = IF use THEN sessions
                          ELSE Append(sessions, NewSession(<<c>>))
           /\ calls' = [calls EXCEPT ![c] =
                  [@ EXCEPT !.pc = "request", !.args = <<args>>,
                            !.http_verb = http_verb, !.url = url,
                            !.query_params = query_params,
                            !.body_params = body, !.headers = hdrs,
                            !.log = IF debug
                                    THEN <<RequestLog(url, query_params, body, hdrs)>>
                                    ELSE <<>>,
                            !.use_running_session = use,
                            !.session = IF use THEN self_session[1]
                                        ELSE Len(sessions) + 1]]
    /\ UNCHANGED <<token, default_headers, debug, self_session>>

NoFilters == [k \in FilterNames |-> NoneVal]

Schemas(c, query_params, headers) ==
    ApiCall(c, "GET", "schemas", query_params, <<>>, headers,
            Args("schemas", NoFilters, <<>>, query_params, headers))

Actions(c, query_params, headers) ==
    ApiCall(c, "GET", "actions", query_params, <<>>, headers,
            Args("actions", NoFilters, <<>>, query_params, headers))

Logs(c, named, additional, headers) ==
    ApiCall(c, "GET", "logs", <<LogsQueryParams(named, additional)>>, <<>>, headers,
            Args("logs", named, additional, <<>>, headers))

ApiCallDirect(c, http_verb, path, query_params, body_params, headers) ==
    ApiCall(c, http_verb, path, query_params, body_params, headers,
            Args("api_call", NoFilters, <<>>, query_params, headers))

(***************************************************************************)
(* async with session.request(...) as res                                  *)
(***************************************************************************)
TransportErrors == {"ClientConnectionError", "TimeoutError"}

Error(type, message, response) ==
    [type |-> type, message |-> message, response |-> response]

\* The keyword arguments of session.request and the session it is called on.
RequestKwargs(call) ==
    [session |-> call.session, http_verb |-> call.http_verb, url |-> call.url,
     headers |-> call.headers, params |-> call.query_params,
     data |-> call.body_params]

RequestOk(c, res) ==
    /\ calls[c].pc = "request"
    /\ ~sessions[calls[c].session].closed
    /\ calls' = [calls EXCEPT ![c] =
           [@ EXCEPT !.pc = "text", !.request = <<RequestKwargs(calls[c])>>,
                     !.res = <<res>>]]
    /\ UNCHANGED <<token, default_headers, debug, self_session, sessions>>

\* The request raises: a transport error, or RuntimeError("Session is closed")
\* when the caller closed the borrowed session in the meantime.
RequestFails(c, err) ==
    /\ calls[c].pc = "request"
    /\ IF sessions[calls[c].session].closed
       THEN err = "RuntimeError"
       ELSE err \in TransportErrors
    /\ calls' = [calls EXCEPT ![c] =
           [@ EXCEPT !.pc = "finally", !.request = <<RequestKwargs(calls[c])>>,
                     !.error = <<Error(err, "", <<>>)>>]]
    /\ UNCHANGED <<token, default_headers, debug, self_session, sessions>>

(***************************************************************************)
(* response_body = await res.text(), and the envelope                      *)
(***************************************************************************)
\* resp = AuditLogsResponse(...); _debug_log_response(self.logger, resp)
Envelope(call, response_body) ==
    LET resp == MakeResp(call.url, call.res[1], response_body)
    IN  [call EXCEPT !.pc = "finally", !.response_body = response_body,
                     !.built = @ + 1, !.resp = <<resp>>,
                     !.log = IF debug
                             THEN Append(@, [kind |-> "response",
                                             status_code |-> resp.status_code])
                             ELSE @]

TextOk(c) ==
    /\ calls[c].pc = "text"
    /\ calls' = [calls EXCEPT ![c] =
           Envelope([@ EXCEPT !.text = "ok"], TextBody(@.res[1].body))]
    /\ UNCHANGED <<token, default_headers, debug, self_session, sessions>>

\* The handler missing: the content-type error reaches the caller.
TextContentTypeErrorPropagates(c) ==
    /\ calls[c].pc = "text"
    /\ calls' = [calls EXCEPT ![c] =
           [@ EXCEPT !.pc = "finally", !.text = "ContentTypeError",
                     !.error = <<Error("ContentTypeError", "", <<>>)>>]]
    /\ UNCHANGED <<token, default_headers, debug, self_session, sessions>>

\* except aiohttp.ContentTypeError: response_body stays {}.
TextContentTypeError(c) ==
    /\ calls[c].pc = "text"
    /\ calls' = [calls EXCEPT ![c] =
           Envelope([@ EXCEPT !.text = "ContentTypeError"], @.response_body)]
    /\ UNCHANGED <<token, default_headers, debug, self_session, sessions>>

ParseFailure == "Expecting value: line 1 column 1 (char 0)"

\* except json.decoder.JSONDecodeError as e: raise SlackApiError(message, res)
TextJSONDecodeError(c) ==
    /\ calls[c].pc = "text"
    /\ calls' = [calls EXCEPT ![c] =
           [@ EXCEPT !.pc = "finally", !.text = "JSONDecodeError",
                     !.error = <<Error("SlackApiError",
                                       "Failed to parse the response body: "
                                           \o ParseFailure,
                                       calls[c].res)>>]]
    /\ UNCHANGED <<token, default_headers, debug, self_session, sessions>>

\* Any other failure of res.text() is not caught.
TextFails(c, err) ==
    /\ calls[c].pc = "text"
    /\ calls' = [calls EXCEPT ![c] =
           [@ EXCEPT !.pc = "finally", !.text = err,
                     !.error = <<Error(err, "", <<>>)>>]]
    /\ UNCHANGED <<token, default_headers, debug, self_session, sessions>>

(***************************************************************************)
(* finally: if not use_running_session: await session.close()              *)
(***************************************************************************)
\* No finally clause: nothing is closed.
FinallyNoClose(ss, call, c) == ss

\* close() after the with block instead of in a finally clause.
FinallyCloseOnSuccess(ss, call, c) ==
    IF ~call.use_running_session /\ call.error = <<>>
    THEN Close(ss, call.session, ByCall(c))
    ELSE ss

\* close() without the test of use_running_session.
FinallyCloseAlways(ss, call, c) == Close(ss, call.session, ByCall(c))

FinallyClose(ss, call, c) ==
    IF ~call.use_running_session
    THEN Close(ss, call.session, ByCall(c))
    ELSE ss

Finally(c) ==
    /\ calls[c].pc = "finally"
    /\ sessions' = FinallyClose(sessions, calls[c], c)
    /\ calls' = [calls EXCEPT ![c].pc = "return"]
    /\ UNCHANGED <<token, default_headers, debug, self_session>>

\* return resp, or the pending exception reaches the caller.
Return(c) ==
    /\ calls[c].pc = "return"
    /\ calls' = [calls EXCEPT ![c] =
           IF @.error = <<>>
           THEN [@ EXCEPT !.pc = "done", !.returned = calls[c].resp]
           ELSE [@ EXCEPT !.pc = "done", !.raised = calls[c].error]]
    /\ UNCHANGED <<token, default_headers, debug, self_session, sessions>>

\* The owner of the injected session closes it.
CallerClosesSession ==
    /\ self_session # <<>>
    /\ ~sessions[self_session[1]].closed
    /\ sessions' = Close(sessions, self_session[1], ByCaller)
    /\ UNCHANGED <<token, default_headers, debug, self_session, calls>>

\* The steps of a call after its first await, the server answering from R.
Transport(c, R) ==
    \/ \E res \in R : RequestOk(c, res)
    \/ \E err \in TransportErrors \cup {"RuntimeError"} : RequestFails(c, err)
    \/ TextOk(c)
    \/ TextContentTypeError(c)
    \/ TextJSONDecodeError(c)
    \/ TextFails(c, "ClientPayloadError")
    \/ Finally(c)
    \/ Return(c)

(***************************************************************************)
(* Spec: concurrent calls on one client                                    *)
(***************************************************************************)
Init == InitClient({"xoxp-1"}, {<<>>}, {TRUE}, SessionChoices)

Next ==
    \/ \E c \in Calls :
          \/ ApiCallDirect(c, "GET", "logs", <<>>, <<>>, <<>>)
          \/ Transport(c, CoreResponses)
    \/ CallerClosesSession

Spec == Init /\ [][Next]_vars

(***************************************************************************)
(* SpecLogs: one call of logs() with every combination of filters          *)
(***************************************************************************)
NoInjectedSession == {[self_session |-> <<>>, sessions |-> <<>>]}

NamedFilters == [FilterNames -> {NoneVal, "n"}]

AdditionalNames == {"limit", "actor", "cursor"}

AdditionalParams == Optional(Dicts(AdditionalNames, {NoneVal, "a"}))

InitLogs == InitClient({"xoxp-1"}, {<<>>}, {TRUE}, NoInjectedSession)

NextLogs ==
    \/ \E named \in NamedFilters, additional \in AdditionalParams :
          Logs(1, named, additional, <<>>)
    \/ Transport(1, CoreResponses)

SpecLogs == InitLogs /\ [][NextLogs]_vars

(***************************************************************************)
(* SpecHeaders: one call of each method with every header mapping          *)
(***************************************************************************)
HeaderNames == {"Authorization", "authorization", "AuThOrIzAtIoN", "Content-Type", "X-Id"}

HeaderValues == {"x", Bearer("xoxp-1")}

\* Largest number of headers in a per-call mapping.
MaxHeaders == 2

PerCallHeaders ==
    Optional({h \in Dicts(HeaderNames, HeaderValues) :
                 Cardinality(DOMAIN h) <= MaxHeaders})

DefaultHeaders ==
    {<<>>, <<[k \in {"authorization"} |-> "d"]>>, <<[k \in {"X-Id"} |-> "d"]>>}

InitHeaders == InitClient(Tokens, DefaultHeaders, BOOLEAN, NoInjectedSession)

NextHeaders ==
    \/ \E headers \in PerCallHeaders :
          \/ Schemas(1, <<>>, headers)
          \/ Actions(1, <<>>, headers)
          \/ Logs(1, NoFilters, <<>>, headers)
          \/ \E body_params \in {<<>>, <<[limit |-> "1"]>>} :
                ApiCallDirect(1, "POST", "logs", <<>>, body_params, headers)
    \/ Transport(1, CoreResponses)

SpecHeaders == InitHeaders /\ [][NextHeaders]_vars

(***************************************************************************)
(* SpecResponse: one call and every answer of the server                   *)
(***************************************************************************)
InitResponse == InitClient({"xoxp-1"}, {<<>>}, BOOLEAN, SessionChoices)

NextResponse ==
    \/ \E http_verb \in {"GET", "POST"} :
          ApiCallDirect(1, http_verb, "logs", <<>>, <<>>, <<>>)
    \/ Transport(1, Responses)
    \/ CallerClosesSession

SpecResponse == InitResponse /\ [][NextResponse]_vars

(***************************************************************************)
(* Properties                                                              *)
(***************************************************************************)
Done(c) == calls[c].pc = "done"

InFlight(c) == calls[c].pc \in {"request", "text", "finally", "return"}

\* The sessions coroutine c created.
CreatedBy(c) == {s \in DOMAIN sessions : sessions[s].createdBy = <<c>>}

\* How often coroutine c called close() on session s.
ClosesBy(s, c) ==
    Cardinality({i \in DOMAIN sessions[s].closers : sessions[s].closers[i] = ByCall(c)})

\* C1: a call on a client without injected session creates a session, issues
\* the request on it and has closed it when it returns; a call that found the
\* injected session open issues the request on that session, creates none, and
\* leaves it open: when the call has returned the injected session is closed
\* only if its owner closed it.
C1_SessionPerCall ==
    \A c \in Calls : Done(c) =>
        /\ calls[c].request # <<>>
        /\ calls[c].request[1].session = calls[c].session
        /\ self_session = <<>> =>
              /\ CreatedBy(c) = {calls[c].session}
              /\ sessions[calls[c].session].closed
        /\ calls[c].use_running_session =>
              /\ calls[c].session = self_session[1]
              /\ CreatedBy(c) = {}
              /\ \A i \in DOMAIN sessions[self_session[1]].closers :
                    sessions[self_session[1]].closers[i] = ByCaller
              /\ sessions[self_session[1]].closers = <<>> =>
                    ~sessions[self_session[1]].closed

\* A call has returned an envelope over the injected session, which is open.
C1_Witness ==
    \E c \in Calls :
        /\ Done(c)
        /\ calls[c].use_running_session
        /\ calls[c].returned # <<>>
        /\ ~sessions[self_session[1]].closed

\* C2: a call that created its own session has closed it exactly once when it
\* returns or raises, whatever the exit path, and not before the finally clause.
C2_OwnSessionClosedOnce ==
    \A c \in Calls : (calls[c].pc # "idle" /\ ~calls[c].use_running_session) =>
        /\ CreatedBy(c) = {calls[c].session}
        /\ calls[c].pc \in {"return", "done"} =>
              /\ sessions[calls[c].session].closed
              /\ ClosesBy(calls[c].session, c) = 1
              /\ Len(sessions[calls[c].session].closers) = 1
        /\ calls[c].pc \in {"request", "text", "finally"} =>
              sessions[calls[c].session].closers = <<>>

\* Two calls with their own sessions have ended, one by a timeout of the request
\* and one by a failure to decode the body; a third exit is the normal return.
C2_Witness ==
    \E c, d \in Calls :
        /\ Done(c) /\ Done(d)
        /\ ~calls[c].use_running_session /\ ~calls[d].use_running_session
        /\ calls[c].raised # <<>> /\ calls[c].raised[1].type = "TimeoutError"
        /\ calls[d].raised # <<>> /\ calls[d].raised[1].type = "SlackApiError"
        /\ sessions[calls[c].session].closed /\ sessions[calls[d].session].closed

\* The query parameters of a started logs() call, as handed to api_call and as
\* sent with the request.
LogsCalls == {c \in Calls : calls[c].pc # "idle" /\ calls[c].args[1].method = "logs"}

AdditionalOf(c) ==
    IF calls[c].args[1].additional # <<>> THEN calls[c].args[1].additional[1]
    ELSE EmptyDict

NonNull(d) == [k \in {n \in DOMAIN d : d[n] # NoneVal} |-> d[k]]

\* C3 as stated: the query parameters are the non-null named filters plus all
\* the additional params, the additional ones winning.
C3_Original ==
    \A c \in LogsCalls :
        calls[c].query_params = <<Update(NonNull(calls[c].args[1].named), AdditionalOf(c))>>

\* C3, amended: the query parameters are exactly the additional params whose
\* value is not null, plus the non-null named filters that no additional param
\* names; an additional param that is null is dropped and removes the filter
\* of its name.
C3_QueryParams ==
    \A c \in LogsCalls :
        LET named == calls[c].args[1].named
            add == AdditionalOf(c)
            qp == calls[c].query_params[1]
        IN  /\ calls[c].query_params # <<>>
            /\ DOMAIN qp = {k \in DOMAIN add : add[k] # NoneVal}
                           \cup {k \in FilterNames \ DOMAIN add : named[k] # NoneVal}
            /\ \A k \in DOMAIN qp :
                  qp[k] = IF k \in DOMAIN add THEN add[k] ELSE named[k]
            /\ calls[c].request # <<>> => calls[c].request[1].params = <<qp>>

\* A request went out for logs() with a filter overridden by an additional
\* param, a filter removed by a null one, and a filter left alone.
C3_Witness ==
    \E c \in LogsCalls :
        /\ calls[c].request # <<>>
        /\ calls[c].args[1].named["limit"] = "n"
        /\ calls[c].args[1].named["actor"] = "n"
        /\ calls[c].args[1].named["entity"] = "n"
        /\ calls[c].args[1].additional
              = <<[k \in {"limit", "actor", "cursor"} |->
                     IF k = "actor" THEN NoneVal ELSE "a"]>>

\* C4: every request carries the header Authorization: Bearer <token> of the
\* client's token, whatever the method, the defaults and the per-call headers.
C4_Authorization ==
    \A c \in Calls : calls[c].request # <<>> =>
        /\ "Authorization" \in DOMAIN calls[c].request[1].headers
        /\ calls[c].request[1].headers["Authorization"] = Bearer(token)

\* A request went out whose per-call headers named Authorization themselves,
\* once as written and once in lower case, with another value.
C4_Witness ==
    \E c \in Calls :
        /\ calls[c].request # <<>>
        /\ calls[c].args[1].headers
              = <<[k \in {"Authorization", "authorization"} |-> "x"]>>

\* C5 as stated: a header the caller passes with the call is sent with the
\* caller's value, Content-Type included.  (Authorization, which the header
\* builder always sets, is the subject of C4 and left out here.)
C5_PerCallHeadersWin ==
    \A c \in Calls : (calls[c].request # <<>> /\ calls[c].args[1].headers # <<>>) =>
        \A k \in (DOMAIN calls[c].args[1].headers[1]) \ {"Authorization"} :
            calls[c].request[1].headers[k] = calls[c].args[1].headers[1][k]

\* The token in a header value.
ContainsToken(v) == v \in {token, Bearer(token)}

RequestLines(c) ==
    {i \in DOMAIN calls[c].log : calls[c].log[i].kind = "request"}

\* C6 as stated: in the request debug line every authorization header is
\* redacted, the token appears nowhere in the logged headers, every other
\* header is logged as it is, and the headers sent are not the redacted ones.
C6_Original ==
    \A c \in Calls : \A i \in RequestLines(c) :
        LET logged == calls[c].log[i].headers
            sent == calls[c].headers
        IN  /\ DOMAIN logged = DOMAIN sent
            /\ \A k \in DOMAIN logged :
                  /\ Lower(k) = "authorization" => logged[k] = Redacted
                  /\ Lower(k) # "authorization" => logged[k] = sent[k]
                  /\ ~ContainsToken(logged[k])
            /\ sent["Authorization"] = Bearer(token)
            /\ calls[c].request # <<>> => calls[c].request[1].headers = sent

\* C6, amended: in the request debug line every authorization header, in any
\* letter case, is logged as (redacted), so the token is never logged as the
\* value of an authorization header; every other header is logged with its
\* real value, also when the caller put the token in it; the headers sent are
\* not altered.
C6_Redaction ==
    \A c \in Calls : \A i \in RequestLines(c) :
        LET logged == calls[c].log[i].headers
            sent == calls[c].headers
        IN  /\ DOMAIN logged = DOMAIN sent
            /\ \A k \in DOMAIN logged :
                  /\ Lower(k) = "authorization" => logged[k] = Redacted
                  /\ Lower(k) # "authorization" => logged[k] = sent[k]
                  /\ ContainsToken(logged[k]) =>
                        Lower(k) # "authorization" /\ ContainsToken(sent[k])
            /\ sent["Authorization"] = Bearer(token)
            /\ calls[c].request # <<>> => calls[c].request[1].headers = sent

\* The debug line of a request that carried the token under Authorization and
\* under a caller-supplied name of another letter case.
C6_Witness ==
    \E c \in Calls : \E i \in RequestLines(c) :
        /\ calls[c].request # <<>>
        /\ "AuThOrIzAtIoN" \in DOMAIN calls[c].headers
        /\ ContainsToken(calls[c].headers["AuThOrIzAtIoN"])
        /\ calls[c].log[i].headers["AuThOrIzAtIoN"] = Redacted

\* C7: when reading the body raises the content-type error the call raises
\* nothing and returns one envelope with an empty raw body and the status code
\* and headers of the response.
C7_ContentTypeError ==
    \A c \in Calls : (Done(c) /\ calls[c].text = "ContentTypeError") =>
        /\ calls[c].raised = <<>>
        /\ Len(calls[c].returned) = 1
        /\ calls[c].returned[1].raw_body = NoBody
        /\ calls[c].returned[1].body = EmptyDict
        /\ calls[c].returned[1].status_code = calls[c].res[1].status
        /\ calls[c].returned[1].headers = calls[c].res[1].headers

\* A call is over whose response, a 404, could not be read as text.
C7_Witness ==
    \E c \in Calls :
        /\ Done(c)
        /\ calls[c].text = "ContentTypeError"
        /\ calls[c].res[1].status = 404

\* C8 as stated: a call whose response body is not valid JSON returns no
\* envelope and raises SlackApiError with the response and the parse message.
C8_InvalidJsonRaises ==
    \A c \in Calls :
        (/\ Done(c)
         /\ calls[c].text \in {"ok", "JSONDecodeError"}
         /\ ~IsJson(calls[c].res[1].body)) =>
            /\ calls[c].returned = <<>>
            /\ calls[c].raised # <<>>
            /\ calls[c].raised[1].type = "SlackApiError"
            /\ calls[c].raised[1].response = calls[c].res

\* C9: a call that returns has built and returns exactly one envelope; when the
\* body was read, the call returns, for every status code, and the envelope has
\* the text as read and the status of the response, with an empty parsed body
\* when the text is no JSON.
C9_OneEnvelope ==
    \A c \in Calls :
        /\ calls[c].built <= 1
        /\ (Done(c) /\ calls[c].raised = <<>>) =>
              Len(calls[c].returned) = 1 /\ calls[c].built = 1
        /\ (Done(c) /\ calls[c].text = "ok") =>
              /\ calls[c].raised = <<>>
              /\ Len(calls[c].returned) = 1
              /\ calls[c].returned[1].raw_body = TextBody(calls[c].res[1].body)
              /\ calls[c].returned[1].status_code = calls[c].res[1].status
              /\ calls[c].returned[1].url = calls[c].url
              /\ ~IsJson(calls[c].res[1].body) =>
                    calls[c].returned[1].body = EmptyDict

\* A call returned the envelope of a 500 whose body is no JSON.
C9_Witness ==
    \E c \in Calls :
        /\ Done(c)
        /\ calls[c].returned # <<>>
        /\ calls[c].returned[1].status_code = 500
        /\ calls[c].returned[1].raw_body = TextBody("not json")

\* C10: in every interleaving, the injected session is closed by its owner
\* only; a session the client created is closed by the call that created it
\* only, so never under a call still using it; and when no call is in flight
\* every session the client created is closed.
C10_SessionOwnership ==
    /\ \A s \in DOMAIN sessions : \A i \in DOMAIN sessions[s].closers :
          sessions[s].closers[i] =
              IF sessions[s].createdBy = <<>> THEN ByCaller
              ELSE ByCall(sessions[s].createdBy[1])
    /\ \A c \in Calls : \A s \in DOMAIN sessions :
          (calls[c].pc \in {"request", "text", "finally"} /\ calls[c].session = s) =>
              \A d \in Calls \ {c} : ClosesBy(s, d) = 0
    /\ (\A c \in Calls : ~InFlight(c)) =>
          \A s \in DOMAIN sessions : sessions[s].createdBy # <<>> => sessions[s].closed

\* The owner closed the injected session under a call that had borrowed it; that
\* call is over, and so is one that started later and made its own session.
C10_Witness ==
    \E c, d \in Calls :
        /\ Done(c) /\ Done(d)
        /\ calls[c].use_running_session
        /\ calls[c].raised # <<>> /\ calls[c].raised[1].type = "RuntimeError"
        /\ ~calls[d].use_running_session
        /\ sessions[self_session[1]].closers = <<ByCaller>>
        /\ sessions[calls[d].session].closed

====
